---- MODULE Spec2Model ----
(***************************************************************************)
(* Model of the contract router (backend1/routers/contract.py) and of the  *)
(* generic pagination envelope (backend1/schemas/helper.py).               *)
(*                                                                         *)
(* A request goes through the steps FastAPI gives a route with a          *)
(* generator dependency: get_db runs up to its yield (a new session), the  *)
(* handler runs (one delegated data-access call), get_db resumes in its    *)
(* finally block (the session is closed), and the outcome of the handler   *)
(* leaves as the response.  Several requests interleave at these steps.    *)
(*                                                                         *)
(* The path parameter and the body of a request are bound when its handler *)
(* is called; until then they have no effect on the state.                 *)
(*                                                                         *)
(* The data-access module crud/contract.py is not part of the sources at   *)
(* hand; the crud_* operators model it from the specification.  A create   *)
(* may be given any id that no persisted contract has.                     *)
(***************************************************************************)
EXTENDS Integers, Sequences, FiniteSets, TLC

\* ------------------------------------------------------------------ bounds
NumRequests == 2      \* request slots that can be in flight at the same time
MaxSessions == 3      \* sessions SessionLocal can create in one behaviour
MaxId       == 2      \* contract ids 1..MaxId
MaxVal      == 2      \* values 1..MaxVal of each payload field
MaxTotal    == 25     \* PaginatedResponse: total in 0..MaxTotal
MaxSize     == 10     \* PaginatedResponse: size in 0..MaxSize
MaxPages    == 3      \* PaginatedResponse: pages in 0..MaxPages
MaxItems    == 2      \* PaginatedResponse: len(items) in 0..MaxItems
MaxPage     == 2      \* PaginatedResponse: page in 1..MaxPage

Requests == 1..NumRequests
Sessions == 1..MaxSessions
Ids      == 1..MaxId
Vals     == 1..MaxVal

\* ------------------------------------------------------------ value shapes
\* ContractCreate: the payload of POST and PUT (its fields, here one).
ContractCreate == [name : Vals]
NoContract     == [name |-> 0]

\* ContractOut / the persisted row: the payload's fields plus the id.
Row(id, payload) == [id |-> id, name |-> payload.name]
NoRow            == [id |-> 0, name |-> 0]

\* What a call gives back: a row, a list of rows, None, or a raised error.
Returned(row)  == [kind |-> "row",   row |-> row,   rows |-> <<>>, err |-> ""]
ReturnedList(rows) == [kind |-> "list", row |-> NoRow, rows |-> rows, err |-> ""]
ReturnedNone   == [kind |-> "none",  row |-> NoRow, rows |-> <<>>, err |-> ""]
Raised(err)    == [kind |-> "raise", row |-> NoRow, rows |-> <<>>, err |-> err]
NoOutcome      == [kind |-> "",      row |-> NoRow, rows |-> <<>>, err |-> ""]

VARIABLES
    store,        \* the contract table: id -> row, NoRow where none is persisted
    sessions,     \* session -> [state, opens, closes]
    nextSession,  \* the next session SessionLocal() creates
    pc,           \* request -> "idle" | "handler" | "finally"
    route,        \* request -> the route it came in on
    contract_id,  \* request -> the path parameter (0 where the route has none)
    contract,     \* request -> the payload (NoContract where the route has none)
    db,           \* request -> the session get_db yielded (0 before)
    result,       \* request -> what the handler returned or raised
    calls,        \* request -> the data-access calls the handler made
    posted,       \* id -> the row a POST returned, while no PUT/DELETE touched it
    deleted,      \* id -> a DELETE removed it and no POST recreated it
    ctorArgs,     \* PaginatedResponse: the constructor's arguments
    response,     \* PaginatedResponse: the constructed value
    constructed   \* PaginatedResponse: the constructor has run

routerVars == <<store, sessions, nextSession, pc, route, contract_id, contract,
                db, result, calls, posted, deleted>>
pageVars   == <<ctorArgs, response, constructed>>
vars       == <<store, sessions, nextSession, pc, route, contract_id, contract,
                db, result, calls, posted, deleted, ctorArgs, response, constructed>>

\* ------------------------------------------------- the data-access module
\* crud/contract.py, reached through `crud_contract` (contract.py line 5).
\* Each operator gives the set of ways the call can end: the table it leaves
\* and what it returns or raises.
Persisted == {i \in Ids : store[i] # NoRow}

RECURSIVE RowsFrom(_)
RowsFrom(i) == IF i > MaxId THEN <<>>
               ELSE IF store[i] # NoRow THEN <<store[i]>> \o RowsFrom(i + 1)
               ELSE RowsFrom(i + 1)

WriteErrors == {"constraint_violation"}

crud_create_contract(session, payload) ==
    {[store |-> [store EXCEPT ![i] = Row(i, payload)], out |-> Returned(Row(i, payload))] :
        i \in Ids \ Persisted}
    \cup {[store |-> store, out |-> Raised(e)] : e \in WriteErrors}

crud_get_contract_by_id(session, id) ==
    IF id \in Persisted
    THEN {[store |-> store, out |-> Returned(store[id])]}
    ELSE {[store |-> store, out |-> Raised("not_found")]}

crud_update_contract(session, id, payload) ==
    IF id \in Persisted
    THEN {[store |-> [store EXCEPT ![id] = Row(id, payload)],
           out |-> Returned(Row(id, payload))]}
         \cup {[store |-> store, out |-> Raised(e)] : e \in WriteErrors}
    ELSE {[store |-> store, out |-> Raised("not_found")]}

crud_delete_contract(session, id) ==
    IF id \in Persisted
    THEN {[store |-> [store EXCEPT ![id] = NoRow], out |-> Returned(store[id])]}
    ELSE {[store |-> store, out |-> Raised("not_found")]}

crud_get_contracts(session) ==
    {[store |-> store, out |-> ReturnedList(RowsFrom(1))]}

\* ------------------------------------------------------------- the router
\* One entry of a request's call log: the function called, the arguments it
\* was given and how the call ended.
Call(fn, session, id, payload, out) ==
    [fn |-> fn, db |-> session, contract_id |-> id, contract |-> payload, out |-> out]

\* `return crud_contract.f(...)`: one call, whose outcome is the handler's.
ReturnCall(fn, session, id, payload, ends) ==
    {[store |-> e.store, result |-> e.out,
      calls |-> <<Call(fn, session, id, payload, e.out)>>] : e \in ends}

\* Mutant: the handler fills the payload in before passing it on.
create_contract_Defaulted(payload, session) ==
    ReturnCall("create_contract", session, 0, [name |-> 1],
               crud_create_contract(session, [name |-> 1]))

create_contract(payload, session) ==
    ReturnCall("create_contract", session, 0, payload,
               crud_create_contract(session, payload))

\* Mutant: the path parameter is passed on off by one.
get_contract_by_id_OffByOne(id, session) ==
    ReturnCall("get_contract_by_id", session, id, NoContract,
               crud_get_contract_by_id(session, id - 1))

\* Mutant: the handler catches the failure and answers with None.
get_contract_by_id_Swallow(id, session) ==
    {[store |-> e.store,
      result |-> IF e.out.kind = "raise" THEN ReturnedNone ELSE e.out,
      calls |-> <<Call("get_contract_by_id", session, id, NoContract, e.out)>>] :
        e \in crud_get_contract_by_id(session, id)}

get_contract_by_id(id, session) ==
    ReturnCall("get_contract_by_id", session, id, NoContract,
               crud_get_contract_by_id(session, id))

\* Mutant: PUT delegates to the create function.
update_contract_AsCreate(id, payload, session) ==
    ReturnCall("create_contract", session, id, payload,
               crud_create_contract(session, payload))

update_contract(id, payload, session) ==
    ReturnCall("update_contract", session, id, payload,
               crud_update_contract(session, id, payload))

\* Mutant: a failed call is tried a second time.
delete_contract_Retry(id, session) ==
    {[store |-> e.store, result |-> e.out,
      calls |-> IF e.out.kind = "raise"
                THEN <<Call("delete_contract", session, id, NoContract, e.out),
                       Call("delete_contract", session, id, NoContract, e.out)>>
                ELSE <<Call("delete_contract", session, id, NoContract, e.out)>>] :
        e \in crud_delete_contract(session, id)}

delete_contract(id, session) ==
    ReturnCall("delete_contract", session, id, NoContract,
               crud_delete_contract(session, id))

\* Mutant: the list is cut to its first entry.
read_contracts_FirstOnly(session) ==
    {[store |-> e.store,
      result |-> ReturnedList(IF e.out.rows = <<>> THEN <<>> ELSE <<Head(e.out.rows)>>),
      calls |-> <<Call("get_contracts", session, 0, NoContract, e.out)>>] :
        e \in crud_get_contracts(session)}

read_contracts(session) ==
    ReturnCall("get_contracts", session, 0, NoContract,
               crud_get_contracts(session))

Routes == {"POST /", "GET /{contract_id}", "PUT /{contract_id}",
           "DELETE /{contract_id}", "GET /"}

\* The route table of the APIRouter: the handler each decorator registers,
\* called with the path parameter, the body and the session of the request.
Dispatch(rt, id, payload, session) ==
    CASE rt = "POST /"                -> create_contract(payload, session)
      [] rt = "GET /{contract_id}"    -> get_contract_by_id(id, session)
      [] rt = "PUT /{contract_id}"    -> update_contract(id, payload, session)
      [] rt = "DELETE /{contract_id}" -> delete_contract(id, session)
      [] rt = "GET /"                 -> read_contracts(session)

\* db = SessionLocal(): a session nobody holds yet.
SessionLocal == nextSession

NoSession == [state |-> "none", opens |-> 0, closes |-> 0]

\* Mutant: the session is created once at module level and get_db yields
\* that one session to every request.
get_db_yield_Global(r) ==
    /\ pc[r] = "idle"
    /\ \A q \in Requests : q < r => pc[q] # "idle"
    /\ nextSession <= MaxSessions
    /\ sessions' = [sessions EXCEPT ![MaxSessions] =
                       [state |-> "open", opens |-> @.opens + 1, closes |-> @.closes]]
    /\ db' = [db EXCEPT ![r] = MaxSessions]
    /\ nextSession' = nextSession + 1
    /\ pc' = [pc EXCEPT ![r] = "handler"]
    /\ UNCHANGED <<store, route, contract_id, contract, result, calls, posted, deleted>>
    /\ UNCHANGED pageVars

\* get_db up to its yield, run for a request before its handler: the
\* handler is then entered with the session as its db argument.
get_db_yield(r) ==
    /\ pc[r] = "idle"
    \* Request slots are interchangeable: a new request takes the first free one.
    /\ \A q \in Requests : q < r => pc[q] # "idle"
    /\ nextSession <= MaxSessions
    /\ LET s == SessionLocal IN
        /\ sessions' = [sessions EXCEPT ![s] =
                           [state |-> "open", opens |-> @.opens + 1, closes |-> @.closes]]
        /\ db' = [db EXCEPT ![r] = s]
    /\ nextSession' = nextSession + 1
    /\ pc' = [pc EXCEPT ![r] = "handler"]
    /\ UNCHANGED <<store, route, contract_id, contract, result, calls, posted, deleted>>
    /\ UNCHANGED pageVars

\* History of what the clients have seen.  posted[i] is the row a POST
\* answered with for id i, forgotten once a data-access update or delete of i
\* succeeds; deleted[i] says a DELETE of i answered with a row and no
\* data-access create has produced i since.
Succeeded(fns, i, cs) ==
    \E k \in DOMAIN cs : /\ cs[k].fn \in fns
                         /\ cs[k].out.kind = "row"
                         /\ cs[k].out.row.id = i

Posted(rt, h) ==
    [i \in Ids |->
        IF rt = "POST /" /\ h.result.kind = "row" /\ h.result.row.id = i
        THEN h.result.row
        ELSE IF Succeeded({"update_contract", "delete_contract"}, i, h.calls)
        THEN NoRow
        ELSE posted[i]]

Deleted(rt, id, h) ==
    [i \in Ids |->
        IF Succeeded({"create_contract"}, i, h.calls)
        THEN FALSE
        ELSE IF rt = "DELETE /{contract_id}" /\ h.result.kind = "row" /\ id = i
        THEN TRUE
        ELSE deleted[i]]

\* The handler of request r, which came in on route rt with path parameter
\* id and body payload: the route's function runs to its return or to the
\* exception that leaves it.
Handler(r, rt, id, payload) ==
    /\ pc[r] = "handler"
    /\ route' = [route EXCEPT ![r] = rt]
    /\ contract_id' = [contract_id EXCEPT ![r] = id]
    /\ contract' = [contract EXCEPT ![r] = payload]
    /\ \E h \in Dispatch(rt, id, payload, db[r]) :
        /\ store' = h.store
        /\ result' = [result EXCEPT ![r] = h.result]
        /\ calls' = [calls EXCEPT ![r] =
                        [k \in DOMAIN h.calls |->
                            [fn |-> h.calls[k].fn, db |-> h.calls[k].db,
                             contract_id |-> h.calls[k].contract_id,
                             contract |-> h.calls[k].contract,
                             out |-> h.calls[k].out,
                             session |-> sessions[h.calls[k].db].state]]]
        /\ posted' = Posted(rt, h)
        /\ deleted' = Deleted(rt, id, h)
    /\ pc' = [pc EXCEPT ![r] = "finally"]
    /\ UNCHANGED <<sessions, nextSession, db>>
    /\ UNCHANGED pageVars

\* Mutant: db.close() after the yield without try/finally, so that an
\* exception thrown into the generator skips it.
get_db_finally_Unprotected(r) ==
    /\ pc[r] = "finally"
    /\ sessions' = IF result[r].kind = "raise" THEN sessions
                   ELSE [sessions EXCEPT ![db[r]] =
                           [state |-> "closed", opens |-> @.opens, closes |-> @.closes + 1]]
    /\ pc' = [pc EXCEPT ![r] = "idle"]
    /\ route' = [route EXCEPT ![r] = ""]
    /\ contract_id' = [contract_id EXCEPT ![r] = 0]
    /\ contract' = [contract EXCEPT ![r] = NoContract]
    /\ db' = [db EXCEPT ![r] = 0]
    /\ result' = [result EXCEPT ![r] = NoOutcome]
    /\ calls' = [calls EXCEPT ![r] = <<>>]
    /\ UNCHANGED <<store, nextSession, posted, deleted>>
    /\ UNCHANGED pageVars

\* get_db resumed after its yield: `finally: db.close()` runs whether the
\* handler returned or raised.  The generator is then exhausted, the outcome
\* of the handler leaves as the response (or as the propagating exception)
\* and the slot is free for the next request.
get_db_finally(r) ==
    /\ pc[r] = "finally"
    /\ sessions' = [sessions EXCEPT ![db[r]] =
                       [state |-> "closed", opens |-> @.opens, closes |-> @.closes + 1]]
    /\ pc' = [pc EXCEPT ![r] = "idle"]
    /\ route' = [route EXCEPT ![r] = ""]
    /\ contract_id' = [contract_id EXCEPT ![r] = 0]
    /\ contract' = [contract EXCEPT ![r] = NoContract]
    /\ db' = [db EXCEPT ![r] = 0]
    /\ result' = [result EXCEPT ![r] = NoOutcome]
    /\ calls' = [calls EXCEPT ![r] = <<>>]
    /\ UNCHANGED <<store, nextSession, posted, deleted>>
    /\ UNCHANGED pageVars

\* The five routes: the request's path parameter and body reach the handler.
Post(r) ==
    \E payload \in ContractCreate : Handler(r, "POST /", 0, payload)
GetOne(r) ==
    \E id \in Ids : Handler(r, "GET /{contract_id}", id, NoContract)
Put(r) ==
    \E id \in Ids, payload \in ContractCreate :
        Handler(r, "PUT /{contract_id}", id, payload)
Delete(r) ==
    \E id \in Ids : Handler(r, "DELETE /{contract_id}", id, NoContract)
GetAll(r) ==
    Handler(r, "GET /", 0, NoContract)

\* --------------------------------------------------- the pagination schema
\* PaginatedResponse(items=..., total=..., page=..., size=..., pages=...):
\* five declared fields, no validator, so integer arguments are kept as given.
\* Mutant: pages is computed from total and size, rounding down.
PaginatedResponse_FloorPages(items, total, page, size, pages) ==
    [items |-> items, total |-> total, page |-> page, size |-> size,
     pages |-> IF size > 0 THEN total \div size ELSE pages]

\* Mutant: items is cut to the page size.
PaginatedResponse_Truncate(items, total, page, size, pages) ==
    [items |-> IF Len(items) > size THEN SubSeq(items, 1, size) ELSE items,
     total |-> total, page |-> page, size |-> size, pages |-> pages]

PaginatedResponse(items, total, page, size, pages) ==
    [items |-> items, total |-> total, page |-> page, size |-> size, pages |-> pages]

ItemLists == {[k \in 1..n |-> k] : n \in 0..MaxItems}

CtorArgs == [items : ItemLists, total : 0..MaxTotal, page : 1..MaxPage,
             size : 0..MaxSize, pages : 0..MaxPages]

Construct ==
    /\ ~constructed
    /\ response' = PaginatedResponse(ctorArgs.items, ctorArgs.total, ctorArgs.page,
                                     ctorArgs.size, ctorArgs.pages)
    /\ constructed' = TRUE
    /\ UNCHANGED ctorArgs
    /\ UNCHANGED routerVars

\* --------------------------------------------------------- specifications
InitRouter ==
    /\ store = [i \in Ids |-> NoRow]
    /\ sessions = [s \in Sessions |-> NoSession]
    /\ nextSession = 1
    /\ pc = [r \in Requests |-> "idle"]
    /\ route = [r \in Requests |-> ""]
    /\ contract_id = [r \in Requests |-> 0]
    /\ contract = [r \in Requests |-> NoContract]
    /\ db = [r \in Requests |-> 0]
    /\ result = [r \in Requests |-> NoOutcome]
    /\ calls = [r \in Requests |-> <<>>]
    /\ posted = [i \in Ids |-> NoRow]
    /\ deleted = [i \in Ids |-> FALSE]

NoArgs == [items |-> <<>>, total |-> 0, page |-> 1, size |-> 0, pages |-> 0]

Init ==
    /\ InitRouter
    /\ ctorArgs = NoArgs
    /\ response = NoArgs
    /\ constructed = FALSE

Next ==
    \E r \in Requests :
        \/ get_db_yield(r)
        \/ Post(r)
        \/ GetOne(r)
        \/ Put(r)
        \/ Delete(r)
        \/ GetAll(r)
        \/ get_db_finally(r)

Spec == Init /\ [][Next]_vars

InitPage ==
    /\ InitRouter
    /\ ctorArgs \in CtorArgs
    /\ response = NoArgs
    /\ constructed = FALSE

NextPage == Construct

SpecPage == InitPage /\ [][NextPage]_vars

\* ------------------------------------------------------------- properties
Active(r)       == pc[r] # "idle"
Held(s)         == \E r \in Requests : Active(r) /\ db[r] = s
HandlerStep(r)  == pc[r] = "handler" /\ pc'[r] = "finally"
FinallyStep(r)  == pc[r] = "finally" /\ pc'[r] = "idle"
Ceil(total, size) == (total + size - 1) \div size

\* C1: the session get_db opened for a request is closed exactly once, after
\* the handler has completed, whether it returned or raised; no request that
\* has terminated leaves its session open.
C1_SessionClosedOnce ==
    \A s \in Sessions :
        /\ sessions[s].closes <= 1
        /\ Held(s) => sessions[s].state = "open" /\ sessions[s].closes = 0
        /\ (s < nextSession /\ ~Held(s)) =>
               sessions[s].state = "closed" /\ sessions[s].closes = 1

C1_Witness ==
    \E s \in Sessions, r \in Requests :
        /\ sessions[s].state = "closed" /\ sessions[s].closes = 1 /\ ~Held(s)
        /\ pc[r] = "finally" /\ result[r].kind = "raise"

\* C2: a GET of an id for which a POST answered with a row, with no update or
\* delete of that id since, answers with that same row.
C2_PostThenGet ==
    [][\A r \in Requests :
          (/\ HandlerStep(r)
           /\ route'[r] = "GET /{contract_id}"
           /\ posted[contract_id'[r]] # NoRow)
          => result'[r] = Returned(posted[contract_id'[r]])]_vars

C2_Witness ==
    \E r \in Requests :
        /\ pc[r] = "finally"
        /\ route[r] = "GET /{contract_id}"
        /\ posted[contract_id[r]] # NoRow
        /\ result[r] = Returned(posted[contract_id[r]])

C4_PutFrame ==
    [][\A r \in Requests :
          (/\ HandlerStep(r)
           /\ route'[r] = "PUT /{contract_id}"
           /\ store[contract_id'[r]] # NoRow
           /\ result'[r].kind # "raise")
          => /\ result'[r] = Returned(Row(contract_id'[r], contract'[r]))
             /\ store'[contract_id'[r]] = Row(contract_id'[r], contract'[r])
             /\ \A j \in Ids \ {contract_id'[r]} : store'[j] = store[j]]_vars

C4_Witness ==
    \E r \in Requests :
        /\ pc[r] = "finally"
        /\ route[r] = "PUT /{contract_id}"
        /\ result[r] = Returned(Row(contract_id[r], contract[r]))
        /\ store[contract_id[r]] = result[r].row
        /\ \E j \in Ids \ {contract_id[r]} : store[j] # NoRow /\ store[j].name # contract[r].name

\* C5: GET / answers with a list that holds every persisted row once: its
\* length is the number of persisted rows.
C5_ListLength ==
    [][\A r \in Requests :
          (HandlerStep(r) /\ route'[r] = "GET /")
          => /\ result'[r].kind = "list"
             /\ Len(result'[r].rows) = Cardinality(Persisted)
             /\ {result'[r].rows[k] : k \in DOMAIN result'[r].rows}
                    = {store[i] : i \in Persisted}]_vars

C5_Witness ==
    \E r \in Requests :
        /\ pc[r] = "finally"
        /\ route[r] = "GET /"
        /\ Len(result[r].rows) = MaxId
        /\ Cardinality(Persisted) = MaxId

\* C6 as stated: every constructed value with size > 0 has
\* pages = ceil(total / size).
C6_PagesIsCeil ==
    (constructed /\ response.size > 0)
        => response.pages = Ceil(response.total, response.size)

\* C6 as amended: the constructed value carries the total, size and pages it
\* was given, so pages = ceil(total / size) holds of it exactly when it holds
\* of the arguments; total = 25, size = 10, pages = 3 is such a value.
C6_PagesAsGiven ==
    constructed =>
        /\ response.total = ctorArgs.total
        /\ response.size = ctorArgs.size
        /\ response.pages = ctorArgs.pages
        /\ (ctorArgs.size > 0 /\ ctorArgs.pages = Ceil(ctorArgs.total, ctorArgs.size))
               => response.pages = Ceil(response.total, response.size)

C6_Witness ==
    /\ constructed
    /\ response.total = 25 /\ response.size = 10 /\ response.pages = 3
    /\ response.pages = Ceil(response.total, response.size)

\* C7 as stated: every constructed value has len(items) <= size.
C7_ItemsWithinSize ==
    constructed => Len(response.items) <= response.size

\* C7 as amended: the constructed value carries the items and size it was
\* given, so len(items) <= size holds of it exactly when it holds of the
\* arguments.
C7_ItemsAsGiven ==
    constructed =>
        /\ response.items = ctorArgs.items
        /\ response.size = ctorArgs.size
        /\ (Len(response.items) <= response.size)
               <=> (Len(ctorArgs.items) <= ctorArgs.size)

C7_Witness ==
    /\ constructed
    /\ Len(response.items) = MaxItems
    /\ response.size = MaxItems

\* C8: when the data-access call of a handler raises, the handler makes no
\* other call, the same failure leaves the handler, and the request's session
\* is closed when the request ends.
C8_FailurePropagates ==
    [][\A r \in Requests :
          /\ (/\ HandlerStep(r)
              /\ \E k \in DOMAIN calls'[r] : calls'[r][k].out.kind = "raise")
             => /\ Len(calls'[r]) = 1
                /\ result'[r] = calls'[r][1].out
          /\ (FinallyStep(r) /\ result[r].kind = "raise")
             => /\ sessions'[db[r]].state = "closed"
                /\ sessions'[db[r]].closes = 1]_vars

C8_Witness ==
    \E r \in Requests, e \in WriteErrors \cup {"not_found"} :
        /\ pc[r] = "finally"
        /\ Len(calls[r]) = 1
        /\ calls[r][1].out = Raised(e)
        /\ result[r] = Raised(e)

\* C9: no session is held by two requests or opened twice, and every
\* data-access call of a request is made on the request's own session while
\* that session is open.
C9_OwnOpenSession ==
    /\ \A r, q \in Requests : (r # q /\ Active(r) /\ Active(q)) => db[r] # db[q]
    /\ \A s \in Sessions : sessions[s].opens <= 1
    /\ \A r \in Requests :
        /\ Active(r) => db[r] \in Sessions /\ sessions[db[r]].state = "open"
        /\ ~Active(r) => db[r] = 0 /\ calls[r] = <<>>
        /\ \A k \in DOMAIN calls[r] :
               calls[r][k].db = db[r] /\ calls[r][k].session = "open"

C9_Witness ==
    \E r, q \in Requests :
        /\ r # q
        /\ pc[r] = "finally" /\ pc[q] = "finally"
        /\ db[r] # db[q]
        /\ Len(calls[r]) = 1 /\ Len(calls[q]) = 1

\* C10: a handler makes exactly one data-access call, to the function of its
\* route, with the request's session, path parameter and payload as they came
\* in, and returns what the call returned; the two GET routes leave the
\* persisted contracts as they were.
RouteFn(rt) ==
    CASE rt = "POST /"                -> "create_contract"
      [] rt = "GET /{contract_id}"    -> "get_contract_by_id"
      [] rt = "PUT /{contract_id}"    -> "update_contract"
      [] rt = "DELETE /{contract_id}" -> "delete_contract"
      [] rt = "GET /"                 -> "get_contracts"

C10_OneMatchingCall ==
    [][\A r \in Requests :
          HandlerStep(r)
          => /\ Len(calls'[r]) = 1
             /\ calls'[r][1].fn = RouteFn(route'[r])
             /\ calls'[r][1].db = db[r]
             /\ calls'[r][1].contract_id = contract_id'[r]
             /\ calls'[r][1].contract = contract'[r]
             /\ result'[r] = calls'[r][1].out
             /\ route'[r] \in {"GET /{contract_id}", "GET /"} => store' = store]_vars

C10_Witness ==
    \E r, q \in Requests :
        /\ pc[r] = "finally" /\ pc[q] = "finally"
        /\ route[r] = "GET /" /\ result[r].kind = "list" /\ Len(result[r].rows) >= 1
        /\ route[q] = "PUT /{contract_id}" /\ result[q].kind = "row"
        /\ calls[q] # <<>> /\ calls[q][1].fn = "update_contract"
        /\ calls[q][1].contract = contract[q]

====
